---------------------------- MODULE Spec2Model ----------------------------
(***************************************************************************)
(* Model of parsefish's front end: the lexer of internal/yyparse/lex.go   *)
(* (Scanner + Lexer) and the AST walker (Walk / Inspect).                  *)
(*                                                                         *)
(* Characters are one-character strings, text is a sequence of characters. *)
(* The scan cursor is the 1-based index of the lookahead character.        *)
(***************************************************************************)
EXTENDS Integers, Sequences, FiniteSets, TLC

VARIABLES
    input,      \* the character stream handed to Scanner.Init
    pos,        \* scan cursor: index of the lookahead character
    start,      \* cursor at the beginning of the last next-token call
    tok,        \* token returned by the last next-token call
    lval,       \* the parser's yySymType: fields str and expr
    written,    \* fields of lval the last call assigned
    status,     \* "ready" | "ok" | "panic" | "hang"
    err,        \* error of the last call ("" when none)
    out,        \* tokens returned so far with the payload each call wrote
    tree,       \* AST handed to Walk
    work,       \* pending Walk activations and exit calls (the call stack)
    trace,      \* callback invocations so far
    stopped,    \* nodes on which the callback signalled stop
    wstatus     \* "idle" | "walking" | "done" | "panic"

lexVars  == <<input, pos, start, tok, lval, written, status, err, out>>
walkVars == <<tree, work, trace, stopped, wstatus>>
vars     == <<input, pos, start, tok, lval, written, status, err, out,
              tree, work, trace, stopped, wstatus>>

----------------------------------------------------------------------------
(* Bounds *)

MaxLen      == 3    \* inputs over the full alphabet
MaxWordLen  == 5    \* inputs over the word alphabet
MaxParenLen == 5    \* inputs over the parenthesis alphabet
MaxKwLen    == 3    \* inputs over the keyword alphabet
MaxRedirLen == 4    \* inputs over the redirect alphabet
MaxCalls    == 4    \* next-token calls per input

----------------------------------------------------------------------------
(* Characters and tokens *)

EOF == "EOF"

Letters ==
    {"a","b","c","d","e","f","g","h","i","j","k","l","m","n","o","p","q",
     "r","s","t","u","v","w","x","y","z",
     "A","B","C","D","E","F","G","H","I","J","K","L","M","N","O","P","Q",
     "R","S","T","U","V","W","X","Y","Z"}

DigitVal ==
    [c \in {"0","1","2","3","4","5","6","7","8","9"} |->
        CASE c = "0" -> 0 [] c = "1" -> 1 [] c = "2" -> 2 [] c = "3" -> 3
          [] c = "4" -> 4 [] c = "5" -> 5 [] c = "6" -> 6 [] c = "7" -> 7
          [] c = "8" -> 8 [] c = "9" -> 9]

singleQuotedSpecials == {EOF, "\\", "'"}
doubleQuotedSpecials == {EOF, "\\", "\"", "$"}
specials ==
    {EOF, "\t", "\n", "$", "?", "*", "~", "#", "(", ")", "{", "}", "[", "]",
     "<", ">", "^", "&", ";", "'", "\"", "\\", " "}

KeywordToks == {"IF", "ELSE", "BEGIN", "END", "FUNCTION"}

keywords ==
    [t \in KeywordToks |->
        CASE t = "IF"       -> <<"i","f">>
          [] t = "ELSE"     -> <<"e","l","s","e">>
          [] t = "BEGIN"    -> <<"b","e","g","i","n">>
          [] t = "END"      -> <<"e","n","d">>
          [] t = "FUNCTION" -> <<"f","u","n","c","t","i","o","n">>]

newIdent(name) == [type |-> "Ident", Name |-> name]
newVar(name)   == [type |-> "VarExpr", Name |-> name]
newFD(n)       == [type |-> "FD", N |-> n]

----------------------------------------------------------------------------
(* text/scanner cursor *)

Peek(p) == IF p > Len(input) THEN EOF ELSE input[p]
sNext(p) == IF p > Len(input) THEN p ELSE p + 1

isSpecialChar(c)             == c \in specials
isDoubleQuotedSpecialChar(c) == c \in doubleQuotedSpecials
isSingleQuotedSpecialChar(c) == c \in singleQuotedSpecials
isSingleQuotedIdentChar(c)   == ~isSingleQuotedSpecialChar(c)
isDoubleQuotedIdentChar(c)   == ~isDoubleQuotedSpecialChar(c)
isNumber(c)                  == c \in DOMAIN DigitVal
isIdentChar(c)               == ~isSpecialChar(c)
isLetter(c)                  == c \in Letters
isBrank(c)                   == c = " " \/ c = "\t"
isVarChar(c)                 == isLetter(c) \/ isNumber(c) \/ c = "_"

(* End of the maximal run of characters, starting at p, that satisfy the    *)
(* loop condition of the respective scan loop.                              *)
RECURSIVE DoubleQuotedIdentEnd(_)
DoubleQuotedIdentEnd(p) ==
    IF isDoubleQuotedIdentChar(Peek(p)) THEN DoubleQuotedIdentEnd(sNext(p)) ELSE p

RECURSIVE SingleQuotedIdentEnd(_)
SingleQuotedIdentEnd(p) ==
    IF isSingleQuotedIdentChar(Peek(p)) THEN SingleQuotedIdentEnd(sNext(p)) ELSE p

RECURSIVE IdentEnd(_)
IdentEnd(p) == IF isIdentChar(Peek(p)) THEN IdentEnd(sNext(p)) ELSE p

RECURSIVE VarEnd(_)
VarEnd(p) == IF isVarChar(Peek(p)) THEN VarEnd(sNext(p)) ELSE p

RECURSIVE NumberEnd(_)
NumberEnd(p) == IF isNumber(Peek(p)) THEN NumberEnd(sNext(p)) ELSE p

Text(p, e) == SubSeq(input, p, e - 1)

ErrIdent == "expected IDENT"
ErrVar   == "expected variable name after $"
ErrEOF   == "unexpected EOF"
ErrAtoi  == "strconv.Atoi: invalid syntax"

(* Scan results: err = "" on success; pos is the cursor afterwards.         *)
(* The tail of the three literal-run scanners: the run went from p to e.    *)
IdentOf(p, e) ==
    IF e = p THEN [err |-> ErrIdent, pos |-> e, frag |-> newIdent(<<>>)]
    ELSE [err |-> "", pos |-> e, frag |-> newIdent(Text(p, e))]

scanDoubleQuotedIdent(p) == IdentOf(p, DoubleQuotedIdentEnd(p))

scanSingleQuotedIdent(p) == IdentOf(p, SingleQuotedIdentEnd(p))

(* Mutant of scanIdent: takes one character instead of the maximal run.     *)
scanIdent_OneChar(p) ==
    IdentOf(p, IF isIdentChar(Peek(p)) THEN sNext(p) ELSE p)

scanIdent(p) == IdentOf(p, IdentEnd(p))

(* The tail of scanVar: the name went from b to e.                          *)
VarOf(b, e) ==
    IF e = b THEN [err |-> ErrVar, pos |-> e, frag |-> newVar(<<>>)]
    ELSE [err |-> "", pos |-> e, frag |-> newVar(Text(b, e))]

(* Mutant of scanVar: an empty name is accepted.                            *)
scanVar_AllowsEmpty(p) ==
    [err |-> "", pos |-> VarEnd(sNext(p)), frag |-> newVar(Text(sNext(p), VarEnd(sNext(p))))]

scanVar(p) == VarOf(sNext(p), VarEnd(sNext(p)))

QuotedFailure(r) == [err |-> r.err, pos |-> r.pos, str |-> <<>>]

(* The loop of scanSingleQuoted, entered after the opening quote; the       *)
(* second operator is the part of an iteration after a fragment scan r.     *)
RECURSIVE SingleQuotedLoop(_, _)
SingleQuotedAppend(r, str) ==
    IF r.err # "" THEN QuotedFailure(r)
    ELSE SingleQuotedLoop(r.pos, Append(str, r.frag))

SingleQuotedLoop(p, str) ==
    CASE Peek(p) = EOF -> [err |-> ErrEOF, pos |-> p, str |-> <<>>]
      [] Peek(p) # EOF /\ isSingleQuotedIdentChar(Peek(p)) ->
            SingleQuotedAppend(scanSingleQuotedIdent(p), str)
      [] Peek(p) = "'" -> [err |-> "", pos |-> sNext(p), str |-> str]
      [] OTHER -> SingleQuotedAppend(scanSingleQuotedIdent(p), str)

scanSingleQuoted(p) == SingleQuotedLoop(sNext(p), <<>>)

(* The loop of scanDoubleQuoted, entered after the opening quote.           *)
RECURSIVE DoubleQuotedLoop(_, _)
DoubleQuotedAppend(r, str) ==
    IF r.err # "" THEN QuotedFailure(r)
    ELSE DoubleQuotedLoop(r.pos, Append(str, r.frag))

DoubleQuotedLoop(p, str) ==
    CASE Peek(p) = EOF -> [err |-> ErrEOF, pos |-> p, str |-> <<>>]
      [] Peek(p) # EOF /\ isDoubleQuotedIdentChar(Peek(p)) ->
            DoubleQuotedAppend(scanDoubleQuotedIdent(p), str)
      [] Peek(p) = "$" -> DoubleQuotedAppend(scanVar(p), str)
      [] Peek(p) = "\"" -> [err |-> "", pos |-> sNext(p), str |-> str]
      [] OTHER -> DoubleQuotedAppend(scanDoubleQuotedIdent(p), str)

scanDoubleQuoted(p) == DoubleQuotedLoop(sNext(p), <<>>)

StrsResult(t, p, str) == [err |-> "", tok |-> t, pos |-> p, str |-> str]
StrsFailure(r)        == [err |-> r.err, tok |-> "0", pos |-> r.pos, str |-> <<>>]

(* The loop of scanStrs; StrsAppend and StrsExtend are the parts of an      *)
(* iteration after a fragment scan and after a quoted scan.                 *)
RECURSIVE StrsLoop(_, _, _)
StrsAppend(r, withRightParen, str) ==
    IF r.err # "" THEN StrsFailure(r)
    ELSE StrsLoop(r.pos, withRightParen, Append(str, r.frag))

StrsExtend(r, withRightParen, str) ==
    IF r.err # "" THEN StrsFailure(r)
    ELSE StrsLoop(r.pos, withRightParen, str \o r.str)

(* Mutant of the scanStrs loop: the second ')' of an empty pair is consumed *)
(* by the call that returns the bare ')' token.                             *)
StrsLoop_EatsParen(p, withRightParen, str) ==
    CASE Peek(p) = "$"  -> StrsAppend(scanVar(p), withRightParen, str)
      [] Peek(p) = "\"" -> StrsExtend(scanDoubleQuoted(p), withRightParen, str)
      [] Peek(p) = "'"  -> StrsExtend(scanSingleQuoted(p), withRightParen, str)
      [] Peek(p) = ")"  ->
            IF Len(str) > 0 THEN StrsResult("STR", p, str)
            ELSE IF withRightParen
            THEN (IF Len(str) = 0 THEN StrsResult(")", sNext(p), str)
                  ELSE StrsResult("RIGHT_PAREN_AND_STR", p, str))
            ELSE StrsLoop(sNext(p), TRUE, str)
      [] Peek(p) = "("  ->
            IF Len(str) = 0 /\ ~withRightParen THEN StrsResult("(", sNext(p), str)
            ELSE IF withRightParen
            THEN StrsResult("RIGHT_PAREN_AND_STR_AND_LEFT_PAREN", sNext(p), str)
            ELSE StrsResult("STR_AND_LEFT_PAREN", sNext(p), str)
      [] Peek(p) \notin {"$", "\"", "'", ")", "("} /\ isSpecialChar(Peek(p)) ->
            IF withRightParen THEN StrsResult("RIGHT_PAREN_AND_STR", p, str)
            ELSE StrsResult("STR", p, str)
      [] OTHER -> StrsAppend(scanIdent(p), withRightParen, str)

StrsLoop(p, withRightParen, str) ==
    CASE Peek(p) = "$"  -> StrsAppend(scanVar(p), withRightParen, str)
      [] Peek(p) = "\"" -> StrsExtend(scanDoubleQuoted(p), withRightParen, str)
      [] Peek(p) = "'"  -> StrsExtend(scanSingleQuoted(p), withRightParen, str)
      [] Peek(p) = ")"  ->
            IF Len(str) > 0 THEN StrsResult("STR", p, str)
            ELSE IF withRightParen
            THEN (IF Len(str) = 0 THEN StrsResult(")", p, str)
                  ELSE StrsResult("RIGHT_PAREN_AND_STR", p, str))
            ELSE StrsLoop(sNext(p), TRUE, str)
      [] Peek(p) = "("  ->
            IF Len(str) = 0 /\ ~withRightParen THEN StrsResult("(", sNext(p), str)
            ELSE IF withRightParen
            THEN StrsResult("RIGHT_PAREN_AND_STR_AND_LEFT_PAREN", sNext(p), str)
            ELSE StrsResult("STR_AND_LEFT_PAREN", sNext(p), str)
      [] Peek(p) \notin {"$", "\"", "'", ")", "("} /\ isSpecialChar(Peek(p)) ->
            IF withRightParen THEN StrsResult("RIGHT_PAREN_AND_STR", p, str)
            ELSE StrsResult("STR", p, str)
      [] OTHER -> StrsAppend(scanIdent(p), withRightParen, str)

(* Mutant of scanStrs: withRightParen starts out true.                      *)
scanStrs_PendingAtStart(p) == StrsLoop(p, TRUE, <<>>)

scanStrs(p) == StrsLoop(p, FALSE, <<>>)

RECURSIVE skipBrank(_)
skipBrank(p) == IF isBrank(Peek(p)) THEN skipBrank(sNext(p)) ELSE p

(* skipComment loops while the lookahead is not a newline.  At end-of-input *)
(* Next leaves the cursor where it is, so the loop repeats in the same      *)
(* state for ever: the result is then Hang instead of a cursor.             *)
Hang == -1

RECURSIVE skipComment(_)
skipComment(p) ==
    IF Peek(p) = "\n" THEN p
    ELSE IF sNext(p) = p THEN Hang
    ELSE skipComment(sNext(p))

(* strconv.Atoi on a run of digit characters: empty input is a syntax      *)
(* error.  (Runs within the bounds explored never leave the int range.)     *)
RECURSIVE DecimalValue(_)
DecimalValue(ds) ==
    IF ds = <<>> THEN 0
    ELSE 10 * DecimalValue(SubSeq(ds, 1, Len(ds) - 1)) + DigitVal[ds[Len(ds)]]

Atoi(ds) ==
    IF ds = <<>> THEN [err |-> ErrAtoi, n |-> 0]
    ELSE [err |-> "", n |-> DecimalValue(ds)]

(* Mutant of the tail of scanFD: a failed conversion yields FD(0).          *)
FDOf_Default(e, a) == [err |-> "", pos |-> e, fd |-> newFD(a.n)]

(* The tail of scanFD: the digit run ended at e and converted to a.         *)
FDOf(e, a) ==
    IF a.err # "" THEN [err |-> a.err, pos |-> e, fd |-> newFD(0)]
    ELSE [err |-> "", pos |-> e, fd |-> newFD(a.n)]

(* Mutant of scanFD: no '-' case, every target goes through Atoi.           *)
scanFD_NoClose(p) ==
    FDOf(NumberEnd(sNext(p)), Atoi(Text(sNext(p), NumberEnd(sNext(p)))))

scanFD(p) ==
    IF Peek(sNext(p)) = "-" THEN [err |-> "", pos |-> sNext(p), fd |-> newFD(-1)]
    ELSE FDOf(NumberEnd(sNext(p)), Atoi(Text(sNext(p), NumberEnd(sNext(p)))))

(* Concatenation of the fragments' names, as tokenOf accumulates lit.       *)
RECURSIVE Lit(_)
Lit(e) == IF e = <<>> THEN <<>> ELSE e[1].Name \o Lit(Tail(e))

(* The keyword lookup of tokenOf for the accumulated lit.                   *)
KeywordOf(lit) ==
    IF \E t \in KeywordToks : keywords[t] = lit
    THEN [tok |-> CHOOSE t \in KeywordToks : keywords[t] = lit, ok |-> TRUE]
    ELSE [tok |-> "0", ok |-> FALSE]

(* Mutant of tokenOf: the type assertion on the fragments is missing, every *)
(* fragment's name goes into lit.                                           *)
tokenOf_NoTypeCheck(e) == KeywordOf(Lit(e))

tokenOf(e) ==
    IF \E i \in 1..Len(e) : e[i].type # "Ident" THEN [tok |-> "0", ok |-> FALSE]
    ELSE KeywordOf(Lit(e))

(* Results of mainLex.                                                      *)
Token(t, p) ==
    [status |-> "ok", tok |-> t, pos |-> p, written |-> {},
     str |-> <<>>, expr |-> <<>>, err |-> ""]
TokenStr(t, p, v) ==
    [status |-> "ok", tok |-> t, pos |-> p, written |-> {"str"},
     str |-> v, expr |-> <<>>, err |-> ""]
TokenExpr(t, p, v) ==
    [status |-> "ok", tok |-> t, pos |-> p, written |-> {"expr"},
     str |-> <<>>, expr |-> v, err |-> ""]
Failure(e, p) ==
    [status |-> "error", tok |-> "0", pos |-> p, written |-> {},
     str |-> <<>>, expr |-> <<>>, err |-> e]
Hung(p) ==
    [status |-> "hang", tok |-> "0", pos |-> p, written |-> {},
     str |-> <<>>, expr |-> <<>>, err |-> ""]

(* The '&' case of a redirect: r is the result of scanFD.                   *)
ToFD(r, toFD) ==
    IF r.err # "" THEN Failure(r.err, r.pos) ELSE TokenExpr(toFD, r.pos, <<r.fd>>)

(* The redirect cases of mainLex: op is '>' or '^' at cursor p.             *)
lexRedirect(p, op, toFD, append) ==
    CASE Peek(sNext(p)) = "&" -> ToFD(scanFD(sNext(p)), toFD)
      [] Peek(sNext(p)) = op  -> Token(append, sNext(p))
      [] OTHER                -> Token(op, sNext(p))

(* Keyword resolution of an STR word: k is the result of tokenOf.           *)
Resolve(r, k) == IF k.ok THEN Token(k.tok, r.pos) ELSE TokenStr("STR", r.pos, r.str)

(* The default case of mainLex after scanStrs returned r without error.     *)
WordToken(r) ==
    IF r.tok # "STR" THEN TokenStr(r.tok, r.pos, r.str)
    ELSE Resolve(r, tokenOf(r.str))

(* Mutant of the default case: a scan error is swallowed and the fragments  *)
(* collected so far are returned as STR.                                    *)
WordOrFailure_Recover(r) ==
    IF r.err # "" THEN TokenStr("STR", r.pos, r.str) ELSE WordToken(r)

WordOrFailure(r) ==
    IF r.err # "" THEN Failure(r.err, r.pos) ELSE WordToken(r)

(* The default case of mainLex.                                             *)
lexWord(p) == WordOrFailure(scanStrs(p))

(* mainLex from the dispatch on the lookahead at cursor p (after skipBrank);*)
(* AfterComment is the '#' case once skipComment has run.                   *)
RECURSIVE Dispatch(_)
AfterComment(q) ==
    IF q = Hang THEN Hung(Len(input) + 1) ELSE Dispatch(skipBrank(q))

Dispatch(p) ==
    CASE Peek(p) = EOF -> Token(EOF, p)
      [] Peek(p) = "#" -> AfterComment(skipComment(p))
      [] Peek(p) = ">" -> lexRedirect(p, ">", "REDIRECT_TO_FD", "APPEND_REDIRECT")
      [] Peek(p) = "^" -> lexRedirect(p, "^", "ERR_REDIRECT_TO_FD", "APPEND_ERR_REDIRECT")
      [] Peek(p) \in {";", "\n", "|", "<"} -> Token(Peek(p), sNext(p))
      [] OTHER -> lexWord(p)

mainLex(p0) == Dispatch(skipBrank(p0))

----------------------------------------------------------------------------
(* Inputs *)

FullAlphabet ==
    {"a", "$", "\"", "'", "\\", "(", ")", "#", "\n", " ", ">", "^", "&", "-",
     "3", "?", ";"}
WordAlphabet  == {"a", "b", "$", "\"", "'", " "}
ParenAlphabet == {"a", "(", ")", " "}
KwAlphabet    == {"i", "f", "e", "n", "d", "$", "(", "\""}
RedirAlphabet == {">", "^", "&", "-", "3", "0", "a"}

Strings(A, n) == UNION {[1..k -> A] : k \in 0..n}

Examples ==
    {<<"e","c","h","o","(","x",")">>,
     <<"\"","a","$","b"," ","c","\"">>,
     <<"'","i","t","'","'","s","'">>,
     <<"e","l","s","e">>,
     <<"b","e","g","i","n">>,
     <<"f","u","n","c","t","i","o","n">>,
     <<"f","u","n","c","t","i","o","n","(">>,
     <<"#","c","\n","a">>,
     <<"a","|","b">>,
     <<"\t","<","a">>,
     <<"$","a","_","1",";">>}

Inputs ==
    Strings(FullAlphabet, MaxLen) \cup Strings(WordAlphabet, MaxWordLen)
    \cup Strings(ParenAlphabet, MaxParenLen) \cup Strings(KwAlphabet, MaxKwLen)
    \cup Strings(RedirAlphabet, MaxRedirLen) \cup Examples

----------------------------------------------------------------------------
(* The lexer as a state machine: one step per next-token call *)

WalkIdle ==
    /\ tree = [kind |-> "nil"]
    /\ work = <<>>
    /\ trace = <<>>
    /\ stopped = {}
    /\ wstatus = "idle"

Init ==
    /\ input \in Inputs
    /\ pos = 1
    /\ start = 1
    /\ tok = "0"
    /\ lval = [str |-> <<>>, expr |-> <<>>]
    /\ written = {}
    /\ status = "ready"
    /\ err = ""
    /\ out = <<>>
    /\ WalkIdle

(* What Lex does with the result r of mainLex: an error makes it panic, a  *)
(* token is handed to the parser together with the fields mainLex wrote.    *)
Deliver(r) ==
    /\ start' = pos
    /\ pos' = r.pos
    /\ tok' = r.tok
    /\ written' = r.written
    /\ lval' = [str  |-> IF "str" \in r.written THEN r.str ELSE lval.str,
                expr |-> IF "expr" \in r.written THEN r.expr ELSE lval.expr]
    /\ err' = r.err
    /\ status' = IF r.status = "error" THEN "panic" ELSE r.status
    /\ out' = IF r.status = "ok"
              THEN Append(out, [tok |-> r.tok, val |-> r.str \o r.expr])
              ELSE out

(* Lexer.Lex: calls mainLex and panics on an error.  The parser stops       *)
(* asking for tokens once it has received end-of-input.                     *)
Lex ==
    /\ status \in {"ready", "ok"}
    /\ tok # EOF
    /\ Len(out) < MaxCalls
    /\ Deliver(mainLex(pos))
    /\ UNCHANGED input
    /\ UNCHANGED walkVars

Next == Lex

Spec == Init /\ [][Next]_vars

TypeOK ==
    /\ pos \in 1..(Len(input) + 1)
    /\ status \in {"ready", "ok", "panic", "hang"}
    /\ written \subseteq {"str", "expr"}


----------------------------------------------------------------------------
(* The AST walker.  Nodes are records tagged by kind; a node is identified  *)
(* by its path, the sequence of child indexes leading to it from the root.  *)

MaxArgs == 2    \* expressions in an argument list
MaxBody == 1    \* statements in a body

Leaf    == [kind |-> "Ident"]
NilNode == [kind |-> "nil"]

Exprs(es) == [kind |-> "Exprs", elems |-> es]
Stmts(ss) == [kind |-> "Stmts", elems |-> ss]

ExprNodes == {Leaf, NilNode}
ExprSeqs  == UNION {[1..k -> {Leaf}] : k \in 0..MaxArgs}

CmdStmts ==
    {[kind |-> "CmdStmt", Cmd |-> c, Args |-> a] : c \in ExprNodes, a \in ExprSeqs}

InnerBodies == UNION {[1..k -> CmdStmts] : k \in 0..MaxBody}

StmtNodes ==
    CmdStmts
    \cup {[kind |-> "BeginStmt", Body |-> b] : b \in InnerBodies}
    \cup {[kind |-> "IfStmt", Cond |-> Leaf, Body |-> b, Else |-> e] :
              b \in InnerBodies, e \in InnerBodies}
    \cup {[kind |-> "FunctionStmt", Args |-> a, Body |-> b] :
              a \in ExprSeqs, b \in InnerBodies}
    \cup {[kind |-> "PipeStmt", Lhs |-> l, Rhs |-> r] : l \in CmdStmts, r \in CmdStmts}
    \cup {[kind |-> "RedirectStmt", Lhs |-> l, Rhs |-> r] : l \in CmdStmts, r \in ExprNodes}

(* main walks Stmts(l.result)                                               *)
Trees == {Stmts(ss) : ss \in UNION {[1..k -> StmtNodes] : k \in 0..MaxBody}}

walkStmts(stmts) == IF Len(stmts) > 0 THEN <<Stmts(stmts)>> ELSE <<>>
walkExprs(exprs) == IF Len(exprs) > 0 THEN <<Exprs(exprs)>> ELSE <<>>

(* Mutant of WalkCalls: a pipeline walks its right side first and a         *)
(* conditional its else-body before its then-body.                          *)
WalkCalls_Swapped(n) ==
    CASE n.kind = "Exprs"        -> n.elems
      [] n.kind = "Stmts"        -> n.elems
      [] n.kind = "CmdStmt"      -> <<n.Cmd>> \o walkExprs(n.Args)
      [] n.kind = "BeginStmt"    -> <<Stmts(n.Body)>>
      [] n.kind = "IfStmt"       -> <<n.Cond>> \o walkStmts(n.Else) \o walkStmts(n.Body)
      [] n.kind = "FunctionStmt" -> walkExprs(n.Args) \o walkStmts(n.Body)
      [] n.kind = "PipeStmt"     -> <<n.Rhs, n.Lhs>>
      [] n.kind = "RedirectStmt" -> <<n.Lhs, n.Rhs>>
      [] OTHER                   -> <<>>

(* The nodes Walk is called on, in order, between f := v(node) and v(nil).  *)
WalkCalls(n) ==
    CASE n.kind = "Exprs"        -> n.elems
      [] n.kind = "Stmts"        -> n.elems
      [] n.kind = "CmdStmt"      -> <<n.Cmd>> \o walkExprs(n.Args)
      [] n.kind = "BeginStmt"    -> <<Stmts(n.Body)>>
      [] n.kind = "IfStmt"       -> <<n.Cond>> \o walkStmts(n.Body) \o walkStmts(n.Else)
      [] n.kind = "FunctionStmt" -> walkExprs(n.Args) \o walkStmts(n.Body)
      [] n.kind = "PipeStmt"     -> <<n.Lhs, n.Rhs>>
      [] n.kind = "RedirectStmt" -> <<n.Lhs, n.Rhs>>
      [] OTHER                   -> <<>>

(* A pending activation Walk(v, node); v is FALSE for the nil Visitor.      *)
WalkItem(v, n, path) == [op |-> "walk", v |-> v, node |-> n, path |-> path]
(* The pending v(nil) of an activation.                                     *)
ExitItem(path) == [op |-> "exit", v |-> TRUE, node |-> NilNode, path |-> path]

ChildItems(f, n, path) ==
    [i \in 1..Len(WalkCalls(n)) |-> WalkItem(f, WalkCalls(n)[i], Append(path, i))]

WalkInit ==
    /\ input = <<>>
    /\ pos = 1
    /\ start = 1
    /\ tok = "0"
    /\ lval = [str |-> <<>>, expr |-> <<>>]
    /\ written = {}
    /\ status = "ready"
    /\ err = ""
    /\ out = <<>>
    /\ tree \in Trees
    /\ work = <<WalkItem(TRUE, tree, <<>>)>>
    /\ trace = <<>>
    /\ stopped = {}
    /\ wstatus = "walking"

(* Walk on a nil node returns at once, whatever the visitor.                *)
WalkNil ==
    /\ wstatus = "walking" /\ work # <<>>
    /\ work[1].op = "walk" /\ work[1].node.kind = "nil"
    /\ work' = Tail(work)
    /\ UNCHANGED <<tree, trace, stopped, wstatus>>
    /\ UNCHANGED lexVars

(* f := v(node) with v the nil Visitor: the call of a nil func panics.      *)
WalkNilVisitor ==
    /\ wstatus = "walking" /\ work # <<>>
    /\ work[1].op = "walk" /\ work[1].node.kind # "nil" /\ ~work[1].v
    /\ wstatus' = "panic"
    /\ UNCHANGED <<tree, work, trace, stopped>>
    /\ UNCHANGED lexVars

(* f := v(node): the callback is invoked on the node and answers with a     *)
(* visitor (descend) or with nil (stop); Walk then goes on to the children  *)
(* with f and keeps v for the exit call.                                    *)
WalkVisit ==
    /\ wstatus = "walking" /\ work # <<>>
    /\ work[1].op = "walk" /\ work[1].node.kind # "nil" /\ work[1].v
    /\ \E descend \in BOOLEAN :
        /\ trace' = Append(trace, [ev |-> "enter", path |-> work[1].path,
                                    kind |-> work[1].node.kind, node |-> work[1].node])
        /\ stopped' = IF descend THEN stopped ELSE stopped \cup {work[1].path}
        /\ work' = ChildItems(descend, work[1].node, work[1].path)
                   \o <<ExitItem(work[1].path)>> \o Tail(work)
    /\ UNCHANGED <<tree, wstatus>>
    /\ UNCHANGED lexVars

(* v(nil) at the end of an activation.                                      *)
WalkExit ==
    /\ wstatus = "walking" /\ work # <<>>
    /\ work[1].op = "exit"
    /\ trace' = Append(trace, [ev |-> "exit", path |-> work[1].path, kind |-> "nil",
                                node |-> NilNode])
    /\ work' = Tail(work)
    /\ UNCHANGED <<tree, stopped, wstatus>>
    /\ UNCHANGED lexVars

(* The outermost Walk returns.                                              *)
WalkReturn ==
    /\ wstatus = "walking" /\ work = <<>>
    /\ wstatus' = "done"
    /\ UNCHANGED <<tree, work, trace, stopped>>
    /\ UNCHANGED lexVars

WalkNext == WalkNil \/ WalkNilVisitor \/ WalkVisit \/ WalkExit \/ WalkReturn

WalkSpec == WalkInit /\ [][WalkNext]_vars

----------------------------------------------------------------------------
(* Vocabulary of the lexer properties *)

(* A next-token call has been made; the last one started at cursor start.   *)
Called == status \in {"ok", "panic", "hang"}

(* Lookahead the last call dispatched on, after skipping blanks.            *)
DispatchPos == skipBrank(start)
Lookahead   == Peek(DispatchPos)

(* The last call went straight to the default (word) case of the dispatch.  *)
WordCall ==
    Called /\ Lookahead \notin {EOF, "#", ">", "^", ";", "\n", "|", "<"}

(* The first call on this input has finished (in whatever way).             *)
FirstCallDone ==
    \/ status = "ok" /\ Len(out) = 1
    \/ status \in {"panic", "hang"} /\ Len(out) = 0

IsBareWord(w) == w # <<>> /\ \A i \in 1..Len(w) : w[i] \notin specials

AllIdent(e) == \A i \in 1..Len(e) : e[i].type = "Ident"

(* Text of a fragment as it is written in a shell word.                     *)
Render(f) == IF f.type = "VarExpr" THEN <<"$">> \o f.Name ELSE f.Name

RECURSIVE RenderAll(_)
RenderAll(e) == IF e = <<>> THEN <<>> ELSE RenderAll(SubSeq(e, 1, Len(e) - 1)) \o Render(e[Len(e)])

(* C1: whenever a next-token call returns STR, the composite word it        *)
(* delivers has at least one fragment.                                      *)
C1_StrPayloadNonEmpty ==
    (status = "ok" /\ tok = "STR") => Len(lval.str) > 0

(* C2: a call whose lookahead is '#' returns, and returns the token after   *)
(* the comment: the newline token when the comment line ends in a newline,  *)
(* the end-of-input token when it runs to end-of-input.                     *)
C2_CommentSkipped ==
    (Called /\ Lookahead = "#") =>
        /\ status = "ok"
        /\ written = {}
        /\ IF \E i \in DispatchPos..Len(input) : input[i] = "\n"
           THEN tok = "\n" /\ input[pos - 1] = "\n"
                /\ \A i \in DispatchPos..(pos - 2) : input[i] # "\n"
           ELSE tok = EOF

(* C3: on input w1 ( w2 ) with bare words w1 and w2 the calls return the    *)
(* word-then-'(' fusion token carrying w1, then STR carrying w2, then a     *)
(* bare ')' token.                                                          *)
C3_EchoParen ==
    \A i \in 2..(Len(input) - 2) :
        LET w1 == SubSeq(input, 1, i - 1)
            w2 == SubSeq(input, i + 1, Len(input) - 1) IN
        (/\ input[i] = "(" /\ input[Len(input)] = ")"
         /\ IsBareWord(w1) /\ IsBareWord(w2)
         /\ status = "ok" /\ tok = EOF)
        => /\ Len(out) = 4
           /\ out[1] = [tok |-> "STR_AND_LEFT_PAREN", val |-> <<newIdent(w1)>>]
           /\ out[2] = [tok |-> "STR", val |-> <<newIdent(w2)>>]
           /\ out[3].tok = ")"

(* C4: a properly closed quoted region scans without error even when its    *)
(* interior holds backslashes, and the interior of a single-quoted region   *)
(* comes out as literal Ident text.                                         *)
C4_BackslashLiteral ==
    \A q \in {"'", "\""} :
        LET interior == SubSeq(input, 2, Len(input) - 1) IN
        (/\ Len(input) >= 2
         /\ input[1] = q /\ input[Len(input)] = q
         /\ \A i \in 1..Len(interior) : interior[i] \notin {q} \cup (IF q = "\"" THEN {"$"} ELSE {})
         /\ FirstCallDone)
        => /\ status = "ok"
           /\ (tok = "STR" /\ q = "'") =>
                 AllIdent(lval.str) /\ RenderAll(lval.str) = interior

(* Value of the digit run that starts at cursor i, read left to right.      *)
RECURSIVE RunValue(_, _)
RunValue(i, acc) ==
    IF Peek(i) \in DOMAIN DigitVal THEN RunValue(i + 1, 10 * acc + DigitVal[Peek(i)])
    ELSE acc

ToFDTok(c)   == IF c = ">" THEN "REDIRECT_TO_FD" ELSE "ERR_REDIRECT_TO_FD"
AppendTok(c) == IF c = ">" THEN "APPEND_REDIRECT" ELSE "APPEND_ERR_REDIRECT"

(* C5: with the lookahead at '>' or '^' the call returns the plain redirect *)
(* token, the append token without payload when the operator is doubled,    *)
(* and the to-fd token carrying the one-fragment word FD(-1) for '&-' and   *)
(* FD(n) for '&' followed by a digit run of value n.                        *)
C5_RedirectTokens ==
    (Called /\ Lookahead \in {">", "^"}) =>
        LET c  == Lookahead
            n1 == Peek(DispatchPos + 1)
            n2 == Peek(DispatchPos + 2) IN
        /\ n1 \notin {"&", c} => (status = "ok" /\ tok = c /\ written = {})
        /\ n1 = c => (status = "ok" /\ tok = AppendTok(c) /\ written = {})
        /\ (n1 = "&" /\ n2 = "-") =>
              /\ status = "ok" /\ tok = ToFDTok(c) /\ written = {"expr"}
              /\ lval.expr = <<[type |-> "FD", N |-> -1]>>
        /\ (n1 = "&" /\ n2 \in DOMAIN DigitVal) =>
              /\ status = "ok" /\ tok = ToFDTok(c) /\ written = {"expr"}
              /\ lval.expr = <<[type |-> "FD", N |-> RunValue(DispatchPos + 2, 0)]>>

C5_Witness ==
    /\ Called /\ Lookahead = ">" /\ Peek(DispatchPos + 1) = "&"
    /\ tok = "REDIRECT_TO_FD"
    /\ lval.expr = <<[type |-> "FD", N |-> 30]>>

(* C6: a word assembled as STR becomes a keyword token exactly when all its *)
(* fragments are Ident and their text concatenates to that keyword, and     *)
(* then no payload is written; a word with a VarExpr fragment is never a    *)
(* keyword; fusion tokens pass through with their word.                     *)
C6_KeywordResolution ==
    (WordCall /\ scanStrs(DispatchPos).err = "") =>
        LET word == scanStrs(DispatchPos).str
            wtok == scanStrs(DispatchPos).tok
            text == RenderAll(word)
            isKw == AllIdent(word) /\ \E k \in KeywordToks : keywords[k] = text IN
        /\ status = "ok"
        /\ wtok = "STR" =>
              /\ tok \in KeywordToks <=> isKw
              /\ tok \in KeywordToks => (keywords[tok] = text /\ written = {})
              /\ tok \notin KeywordToks =>
                    (tok = "STR" /\ written = {"str"} /\ lval.str = word)
        /\ wtok # "STR" => (tok = wtok /\ written = {"str"} /\ lval.str = word)
        /\ (\E i \in 1..Len(word) : word[i].type = "VarExpr") => tok \notin KeywordToks

C6_Witness ==
    /\ WordCall /\ status = "ok" /\ tok = "IF" /\ written = {}
    /\ Text(DispatchPos, pos) = <<"i", "f">>

(* Reference reading of a shell word, one character at a time: the quote    *)
(* characters delimit segments, '$' outside single quotes starts a name,    *)
(* and every other character belongs to the current literal run.            *)
Flush(acc, run) == IF run = <<>> THEN acc ELSE Append(acc, [type |-> "Ident", Name |-> run])

RECURSIVE NameEnd(_, _)
NameEnd(src, i) ==
    IF i <= Len(src) /\ (src[i] \in Letters \/ src[i] \in DOMAIN DigitVal \/ src[i] = "_")
    THEN NameEnd(src, i + 1) ELSE i

RECURSIVE RefFrags(_, _, _, _, _)
RefFrags(src, i, mode, run, acc) ==
    IF i > Len(src) THEN Flush(acc, run)
    ELSE LET c == src[i] IN
         CASE mode = "bare" /\ c = "'"  -> RefFrags(src, i + 1, "sq", <<>>, Flush(acc, run))
           [] mode = "bare" /\ c = "\"" -> RefFrags(src, i + 1, "dq", <<>>, Flush(acc, run))
           [] mode = "sq" /\ c = "'"    -> RefFrags(src, i + 1, "bare", <<>>, Flush(acc, run))
           [] mode = "dq" /\ c = "\""   -> RefFrags(src, i + 1, "bare", <<>>, Flush(acc, run))
           [] mode # "sq" /\ c = "$"    ->
                 RefFrags(src, NameEnd(src, i + 1), mode, <<>>,
                          Append(Flush(acc, run),
                                 [type |-> "VarExpr",
                                  Name |-> SubSeq(src, i + 1, NameEnd(src, i + 1) - 1)]))
           [] OTHER -> RefFrags(src, i + 1, mode, Append(run, c), acc)

RECURSIVE StripQuotes(_, _, _)
StripQuotes(src, i, mode) ==
    IF i > Len(src) THEN <<>>
    ELSE LET c == src[i] IN
         CASE mode = "bare" /\ c = "'"  -> StripQuotes(src, i + 1, "sq")
           [] mode = "bare" /\ c = "\"" -> StripQuotes(src, i + 1, "dq")
           [] mode = "sq" /\ c = "'"    -> StripQuotes(src, i + 1, "bare")
           [] mode = "dq" /\ c = "\""   -> StripQuotes(src, i + 1, "bare")
           [] OTHER -> <<c>> \o StripQuotes(src, i + 1, mode)

(* C7: the fragments of a word made of bare runs, quoted segments and $name *)
(* references render back to the source word without its quote characters,  *)
(* with one Ident per maximal literal run of a segment; a word re-tagged as *)
(* a keyword spells that keyword once its quote characters are removed.     *)
C7_RoundTrip ==
    LET src == Text(DispatchPos, pos) IN
    /\ (WordCall /\ status = "ok" /\ tok = "STR" /\ Lookahead # ")") =>
           /\ written = {"str"}
           /\ RenderAll(lval.str) = StripQuotes(src, 1, "bare")
           /\ lval.str = RefFrags(src, 1, "bare", <<>>, <<>>)
    /\ (WordCall /\ status = "ok" /\ tok \in KeywordToks /\ Lookahead # ")") =>
           keywords[tok] = StripQuotes(src, 1, "bare")

C7_Witness ==
    /\ input = <<"\"", "a", "$", "b", " ", "c", "\"">>
    /\ status = "ok" /\ tok = "STR"
    /\ lval.str = <<[type |-> "Ident", Name |-> <<"a">>],
                    [type |-> "VarExpr", Name |-> <<"b">>],
                    [type |-> "Ident", Name |-> <<" ", "c">>]>>

(* Reading the input from cursor i as one shell word (mode as in RefFrags):  *)
(* TRUE when end-of-input arrives inside a quoted segment of that word.     *)
RECURSIVE OpenAtEOF(_, _)
OpenAtEOF(i, mode) ==
    IF i > Len(input) THEN mode # "bare"
    ELSE LET c == input[i] IN
         CASE mode = "bare" /\ c = "'"  -> OpenAtEOF(i + 1, "sq")
           [] mode = "bare" /\ c = "\"" -> OpenAtEOF(i + 1, "dq")
           [] mode = "sq" /\ c = "'"    -> OpenAtEOF(i + 1, "bare")
           [] mode = "dq" /\ c = "\""   -> OpenAtEOF(i + 1, "bare")
           [] mode = "bare" /\ c \notin {"'", "\"", "$"} /\ c \in specials -> FALSE
           [] OTHER -> OpenAtEOF(i + 1, mode)

(* No other scan error can come before the end of input: no backslash, and  *)
(* every '$' is followed by a name character.                               *)
OnlyEOFCanFail ==
    \A j \in DispatchPos..Len(input) :
        /\ input[j] # "\\"
        /\ input[j] = "$" =>
              (Peek(j + 1) \in Letters \/ Peek(j + 1) \in DOMAIN DigitVal \/ Peek(j + 1) = "_")

(* C8: when end-of-input is reached inside a quoted region of the word the  *)
(* call scans (after a leading ')' or not), the call fails: no token, no    *)
(* payload, and Lex panics; the error is the unexpected-EOF error unless    *)
(* another scan error comes first.                                          *)
C8_UnterminatedQuote ==
    (WordCall /\ (\/ OpenAtEOF(DispatchPos, "bare")
                  \/ Lookahead = ")" /\ OpenAtEOF(DispatchPos + 1, "bare"))) =>
        /\ status = "panic"
        /\ tok = "0"
        /\ written = {}
        /\ err # ""
        /\ OnlyEOFCanFail => err = ErrEOF

C8_Witness ==
    /\ WordCall /\ OpenAtEOF(DispatchPos, "bare")
    /\ Lookahead = "\"" /\ Peek(DispatchPos + 1) = "a"
    /\ status = "panic" /\ err = ErrEOF


----------------------------------------------------------------------------
(* Vocabulary of the walker properties *)

Entries == {i \in 1..Len(trace) : trace[i].ev = "enter"}
Exits   == {i \in 1..Len(trace) : trace[i].ev = "exit"}

IsProperPrefix(a, b) == Len(a) < Len(b) /\ SubSeq(b, 1, Len(a)) = a
IsParentOf(a, b)     == Len(b) = Len(a) + 1 /\ SubSeq(b, 1, Len(a)) = a

WalkEnded == wstatus \in {"done", "panic"}

(* C9: after the callback signals stop on a node, the callback is invoked   *)
(* on no descendant of that node, and the traversal goes on to complete     *)
(* normally.                                                                *)
C9_StopSignal ==
    /\ \A i \in Entries : \A s \in stopped : ~IsProperPrefix(s, trace[i].path)
    /\ stopped # {} => wstatus # "panic"

(* C10: when a traversal has ended, exit calls and entry calls are equal in *)
(* number, every entered node has its exit call after its entry call, and   *)
(* a child's entry and exit lie strictly between those of its parent.       *)
C10_Bracketing ==
    WalkEnded =>
        /\ Cardinality(Entries) = Cardinality(Exits)
        /\ \A i \in Entries : \E j \in Exits : j > i /\ trace[j].path = trace[i].path
        /\ \A i \in Entries : \A k \in Entries :
              IsParentOf(trace[i].path, trace[k].path) =>
                 /\ i < k
                 /\ \E j \in Exits : \E m \in Exits :
                       /\ trace[j].path = trace[i].path
                       /\ trace[m].path = trace[k].path
                       /\ k < m /\ m < j

(* C11: the callback is never invoked on an empty statement- or expression- *)
(* sequence container that is the body or argument list of a node (the root *)
(* sequence handed to Walk by its caller is not such a body).               *)
C11_EmptySequenceSkipped ==
    \A i \in Entries :
        (trace[i].path # <<>> /\ trace[i].kind \in {"Exprs", "Stmts"})
            => trace[i].node.elems # <<>>

(* The children of a node in the order the node kinds prescribe, a sequence *)
(* field standing for its container when it is not empty.                   *)
SeqChild(kind, xs) == IF xs = <<>> THEN <<>> ELSE <<[kind |-> kind, elems |-> xs]>>

OrderedChildren(n) ==
    CASE n.kind \in {"Exprs", "Stmts"} -> n.elems
      [] n.kind = "CmdStmt"      -> <<n.Cmd>> \o SeqChild("Exprs", n.Args)
      [] n.kind = "IfStmt"       ->
            <<n.Cond>> \o SeqChild("Stmts", n.Body) \o SeqChild("Stmts", n.Else)
      [] n.kind = "FunctionStmt" -> SeqChild("Exprs", n.Args) \o SeqChild("Stmts", n.Body)
      [] n.kind \in {"PipeStmt", "RedirectStmt"} -> <<n.Lhs, n.Rhs>>

HasOrder(n) ==
    n.kind \in {"Exprs", "Stmts", "CmdStmt", "IfStmt", "FunctionStmt",
                "PipeStmt", "RedirectStmt"}

(* C12: under a node on which the callback asked to descend, the k-th node  *)
(* entered is the k-th child in the order of the node's kind (absent        *)
(* children apart); a child's exit call comes before the entry of any later *)
(* sibling; and a traversal that returns has entered every child.           *)
C12_ChildOrder ==
    \A i \in Entries :
        (HasOrder(trace[i].node) /\ trace[i].path \notin stopped) =>
            LET kids == OrderedChildren(trace[i].node) IN
            /\ \A k \in Entries :
                  IsParentOf(trace[i].path, trace[k].path) =>
                     LET ix == trace[k].path[Len(trace[k].path)] IN
                     /\ ix \in 1..Len(kids)
                     /\ trace[k].node = kids[ix]
                     /\ \A m \in Entries :
                           (/\ IsParentOf(trace[i].path, trace[m].path)
                            /\ ix < trace[m].path[Len(trace[m].path)])
                           => \E x \in Exits : trace[x].path = trace[k].path /\ k < x /\ x < m
            /\ wstatus = "done" =>
                  \A ix \in 1..Len(kids) :
                     kids[ix].kind # "nil" =>
                        \E k \in Entries : trace[k].path = Append(trace[i].path, ix)

C12_Witness ==
    /\ wstatus = "done" /\ stopped = {}
    /\ \E i \in Entries :
          /\ trace[i].kind = "IfStmt"
          /\ trace[i].node.Body # <<>> /\ trace[i].node.Else # <<>>

----------------------------------------------------------------------------
(* Vocabulary of the parenthesis properties *)

(* The last call consumed a leading ')' and kept it pending.                *)
PendingParen == WordCall /\ Lookahead = ")" /\ pos > DispatchPos

(* Where the word of the last call begins: after a leading ')' if any.      *)
WordBegin == IF Lookahead = ")" THEN DispatchPos + 1 ELSE DispatchPos

(* Reading on from cursor i (mode as in RefFrags): the index of the first   *)
(* unquoted character that cannot be part of a word, Len(input) + 1 when    *)
(* the input ends first.                                                    *)
RECURSIVE RefWordEnd(_, _)
RefWordEnd(i, mode) ==
    IF i > Len(input) THEN i
    ELSE LET c == input[i] IN
         CASE mode = "bare" /\ c = "'"  -> RefWordEnd(i + 1, "sq")
           [] mode = "bare" /\ c = "\"" -> RefWordEnd(i + 1, "dq")
           [] mode = "sq" /\ c = "'"    -> RefWordEnd(i + 1, "bare")
           [] mode = "dq" /\ c = "\""   -> RefWordEnd(i + 1, "bare")
           [] mode = "bare" /\ c \notin {"'", "\"", "$"} /\ c \in specials -> i
           [] OTHER -> RefWordEnd(i + 1, mode)

WordEnd    == RefWordEnd(WordBegin, "bare")
Terminator == Peek(WordEnd)
RefWord    == RefFrags(Text(WordBegin, WordEnd), 1, "bare", <<>>, <<>>)

(* C13: a word call that reaches '(' consumes it and returns bare '(' with  *)
(* no word and no pending ')', the word-then-'(' token with a word and no   *)
(* pending ')', and the ')'-then-word-then-'(' token when a ')' is pending; *)
(* one that reaches another special character (not a parenthesis) leaves it *)
(* unconsumed and returns the ')'-then-word token when a ')' is pending and *)
(* STR (or the keyword it spells) otherwise.                                *)
C13_ParenFusion ==
    (WordCall /\ status = "ok") =>
        /\ Terminator = "(" =>
              /\ pos = WordEnd + 1
              /\ written = {"str"} /\ lval.str = RefWord
              /\ tok = IF Lookahead = ")" THEN "RIGHT_PAREN_AND_STR_AND_LEFT_PAREN"
                       ELSE IF RefWord = <<>> THEN "(" ELSE "STR_AND_LEFT_PAREN"
        /\ Terminator \notin {"(", ")"} =>
              /\ pos = WordEnd
              /\ Lookahead = ")" =>
                    (tok = "RIGHT_PAREN_AND_STR" /\ written = {"str"} /\ lval.str = RefWord)
              /\ Lookahead # ")" => tok \in {"STR"} \cup KeywordToks

C13_Witness ==
    /\ WordCall /\ status = "ok" /\ Lookahead = ")" /\ Terminator = "("
    /\ tok = "RIGHT_PAREN_AND_STR_AND_LEFT_PAREN"
    /\ lval.str = <<[type |-> "Ident", Name |-> <<"a">>]>>

(* C14: a call that starts at ')' and meets a second ')' with the word      *)
(* still empty returns the bare ')' token, having consumed the first ')'    *)
(* only; a ')' met after fragments were collected ends the word with STR    *)
(* (or the keyword it spells) and is not consumed.                          *)
C14_AdjacentRightParens ==
    (WordCall /\ status = "ok" /\ Terminator = ")") =>
        /\ (Lookahead = ")" /\ RefWord = <<>>) =>
              (tok = ")" /\ pos = WordEnd /\ Peek(pos) = ")" /\ lval.str = <<>>)
        /\ RefWord # <<>> =>
              /\ pos = WordEnd /\ Peek(pos) = ")"
              /\ tok \in {"STR"} \cup KeywordToks
              /\ tok = "STR" => (written = {"str"} /\ lval.str = RefWord)

C14_Witness ==
    /\ WordCall /\ status = "ok"
    /\ Lookahead = ")" /\ Peek(DispatchPos + 1) = ")"
    /\ tok = ")" /\ pos = DispatchPos + 1

(* C15: a call that consumes a ')' returns the bare ')' token or one of the *)
(* two ')'-fusion tokens, never STR or a keyword.                           *)
C15_NoParenLost ==
    (PendingParen /\ status = "ok") =>
        tok \in {")", "RIGHT_PAREN_AND_STR", "RIGHT_PAREN_AND_STR_AND_LEFT_PAREN"}

(* C16: a call that returns a token other than end-of-input advances the    *)
(* cursor by at least one character.                                        *)
C16_Progress ==
    (status = "ok" /\ tok # EOF) => pos > start

(* C17: a redirect operator is consumed whole: after an append token the    *)
(* cursor is past both operator characters, after a to-fd token it is past  *)
(* '&' and the '-' or the digit run that follows it.                        *)
C17_RedirectConsumed ==
    (status = "ok" /\ Lookahead \in {">", "^"}) =>
        /\ tok = AppendTok(Lookahead) => pos = DispatchPos + 2
        /\ tok = ToFDTok(Lookahead) =>
              pos = IF Peek(DispatchPos + 2) = "-" THEN DispatchPos + 3
                    ELSE NumberEnd(DispatchPos + 2)

(* C18: no call fails with the 'expected IDENT' error.                      *)
C18_NoEmptyIdentError ==
    err # ErrIdent

----------------------------------------------------------------------------
(* Vocabulary of the redirect-target properties *)

(* The last call dispatched on '>&' or '^&'.                                *)
FDCall ==
    Called /\ Lookahead \in {">", "^"} /\ Peek(DispatchPos + 1) = "&"

(* The character after '&' starts neither '-' nor a digit run.              *)
EmptyDigitRun ==
    Peek(DispatchPos + 2) # "-" /\ Peek(DispatchPos + 2) \notin DOMAIN DigitVal

(* C19 as stated: with digit runs that fit in an integer (every run within  *)
(* the bounds does) redirect scanning never fails.                          *)
C19_FDNeverFails ==
    FDCall => status = "ok"

(* C19: after '>&' or '^&', with digit runs that fit in an integer, the     *)
(* call fails exactly when '&' is followed by neither '-' nor a digit, the  *)
(* empty run failing the integer conversion; the failure is the conversion  *)
(* error with no token and no payload, never a defaulted FD.                *)
C19_FDFailure ==
    FDCall =>
        /\ status = "panic" <=> EmptyDigitRun
        /\ status = "panic" => (err = ErrAtoi /\ tok = "0" /\ written = {})
        /\ status # "panic" =>
              /\ status = "ok" /\ tok = ToFDTok(Lookahead) /\ written = {"expr"}
              /\ Len(lval.expr) = 1 /\ lval.expr[1].type = "FD"

C19_Witness ==
    FDCall /\ Peek(DispatchPos + 2) = "a" /\ status = "panic" /\ err = ErrAtoi

----------------------------------------------------------------------------
(* Vocabulary of the variable-reference property *)

IsNameChar(c) == c \in Letters \/ c \in DOMAIN DigitVal \/ c = "_"

(* Reading the word from cursor i (mode as in RefFrags): the first thing to *)
(* go wrong is a '$', outside single quotes, with no name character after   *)
(* it.                                                                      *)
RECURSIVE RefBadDollar(_, _)
RefBadDollar(i, mode) ==
    IF i > Len(input) THEN FALSE
    ELSE LET c == input[i] IN
         CASE mode = "bare" /\ c = "'"  -> RefBadDollar(i + 1, "sq")
           [] mode = "bare" /\ c = "\"" -> RefBadDollar(i + 1, "dq")
           [] mode = "sq" /\ c = "'"    -> RefBadDollar(i + 1, "bare")
           [] mode = "dq" /\ c = "\""   -> RefBadDollar(i + 1, "bare")
           [] mode # "sq" /\ c = "$"    ->
                 IF IsNameChar(Peek(i + 1)) THEN RefBadDollar(NameEnd(input, i + 1), mode)
                 ELSE TRUE
           [] mode = "bare" /\ c \in specials -> FALSE
           [] mode # "bare" /\ c = "\\" -> FALSE
           [] OTHER -> RefBadDollar(i + 1, mode)

IsVarExpr(e) == e.type = "VarExpr"
VarsOf(e)    == SelectSeq(e, IsVarExpr)

(* The call went on past a ')' met in the middle of an empty word.          *)
ParenInsideWord ==
    Lookahead # ")" /\ RefWord = <<>> /\ Terminator = ")"

(* C20: in bare text and inside double quotes each '$' followed by a name   *)
(* character yields one VarExpr named by the maximal run of letters, digits *)
(* and underscores after it, and a '$' inside single quotes yields none; a  *)
(* '$' followed by no name character (end of input and a closing quote      *)
(* included) fails the call with the invalid-variable error and no token.   *)
C20_VariableReference ==
    /\ (WordCall /\ RefBadDollar(WordBegin, "bare")) =>
          (status = "panic" /\ err = ErrVar /\ tok = "0" /\ written = {})
    /\ (WordCall /\ status = "ok" /\ "str" \in written /\ ~ParenInsideWord) =>
          /\ VarsOf(lval.str) = VarsOf(RefWord)
          /\ \A k \in 1..Len(lval.str) :
                IsVarExpr(lval.str[k]) =>
                    /\ lval.str[k].Name # <<>>
                    /\ \A j \in 1..Len(lval.str[k].Name) : IsNameChar(lval.str[k].Name[j])

C20_Witness ==
    /\ WordCall /\ status = "ok" /\ tok = "STR"
    /\ Lookahead = "\""
    /\ \E k \in 1..Len(lval.str) : IsVarExpr(lval.str[k]) /\ Len(lval.str[k].Name) > 0
    /\ VarsOf(lval.str) = VarsOf(RefWord)
============================================================================
